---- MODULE Spec2Model ----
(***************************************************************************)
(* bump_migrations (src/main.rs): a batch of bumps over a migration        *)
(* directory.  Filenames and file contents are sequences of one-character  *)
(* strings, so that parsing, formatting and substring replacement are      *)
(* computed as the program computes them.                                  *)
(***************************************************************************)
EXTENDS Integers, Sequences, FiniteSets

\* ------------------------------------------------------------------ bounds

\* Longest batch of migration names given on the command line.
MaxBatch == 2

\* Most I/O faults (open, read, create, write, rename, read_dir) the
\* environment injects in one run.
MaxFaults == 1

\* i32::MAX: the ids are parsed with parse::<i32>().
I32Max == 2147483647

\* ----------------------------------------------------------------- strings

Digits == <<"0", "1", "2", "3", "4", "5", "6", "7", "8", "9">>

IsDigit(c) == \E k \in 1..10 : Digits[k] = c

DigitVal(c) == (CHOOSE k \in 1..10 : Digits[k] = c) - 1

\* Whether pat occurs in s at position p (1-based).
MatchAt(s, pat, p) ==
    /\ p + Len(pat) - 1 <= Len(s)
    /\ \A k \in 1..Len(pat) : s[p + k - 1] = pat[k]

\* The first position at or after p where pat occurs in s; 0 for none.
NextMatch(s, pat, p) ==
    IF \E q \in p..Len(s) : MatchAt(s, pat, q)
    THEN CHOOSE q \in p..Len(s) :
             /\ MatchAt(s, pat, q)
             /\ \A r \in p..(q - 1) : ~MatchAt(s, pat, r)
    ELSE 0

\* str::replace(from, to): every non-overlapping occurrence of a non-empty
\* pattern, found left to right.
RECURSIVE ReplaceFrom(_, _, _, _)
ReplaceFrom(s, from, to, p) ==
    LET q == NextMatch(s, from, p)
    IN IF q = 0 THEN SubSeq(s, p, Len(s))
       ELSE SubSeq(s, p, q - 1) \o to
                \o ReplaceFrom(s, from, to, q + Len(from))

Replace(s, from, to) == ReplaceFrom(s, from, to, 1)

\* file_name.split("_").nth(0): the text before the first '_' (the whole
\* text when there is none).
SplitFirst(s) ==
    LET q == NextMatch(s, <<"_">>, 1)
    IN IF q = 0 THEN s ELSE SubSeq(s, 1, q - 1)

\* i32::MIN.
I32Min == (0 - I32Max) - 1

\* The digits of an i32, accumulated as from_str does: checked multiply by
\* ten, then checked add of the digit (checked subtract after a '-').
RECURSIVE ParseDigits(_, _, _, _)
ParseDigits(s, p, acc, neg) ==
    IF p > Len(s) THEN [ok |-> TRUE, value |-> acc]
    ELSE IF ~IsDigit(s[p]) THEN [ok |-> FALSE, value |-> 0]
    ELSE LET d == DigitVal(s[p])
         IN IF neg
            THEN IF acc < (I32Min + d + 9) \div 10
                 THEN [ok |-> FALSE, value |-> 0]
                 ELSE ParseDigits(s, p + 1, acc * 10 - d, neg)
            ELSE IF acc > (I32Max - d) \div 10
                 THEN [ok |-> FALSE, value |-> 0]
                 ELSE ParseDigits(s, p + 1, acc * 10 + d, neg)

\* str::parse::<i32>(): an optional sign, then one or more digits, in range.
ParseI32(s) ==
    IF Len(s) = 0 THEN [ok |-> FALSE, value |-> 0]
    ELSE IF s[1] = "-" \/ s[1] = "+"
         THEN IF Len(s) = 1 THEN [ok |-> FALSE, value |-> 0]
              ELSE ParseDigits(s, 2, 0, s[1] = "-")
         ELSE ParseDigits(s, 1, 0, FALSE)

\* i32::to_string(): decimal, no padding, '-' for a negative number.
RECURSIVE NatToString(_)
NatToString(n) ==
    IF n < 10 THEN <<Digits[n + 1]>>
    ELSE NatToString(n \div 10) \o <<Digits[(n % 10) + 1]>>

to_string(n) ==
    IF n = I32Min
    THEN <<"-", "2", "1", "4", "7", "4", "8", "3", "6", "4", "8">>
    ELSE IF n < 0 THEN <<"-">> \o NatToString(0 - n) ELSE NatToString(n)

\* ------------------------------------------------------------ the program

\* name.replace(".py", ""): the stem that update_dependency matches and writes.
Stem(name) == Replace(name, <<".", "p", "y">>, <<>>)

\* collect_migrations, for a directory listed in the order `order`: one
\* Migration {number, name} per entry whose text before the first '_' parses
\* as an i32; the other entries are skipped.
RECURSIVE CollectFrom(_, _)
CollectFrom(order, p) ==
    IF p > Len(order) THEN <<>>
    ELSE LET r == ParseI32(SplitFirst(order[p]))
         IN IF r.ok
            THEN <<[number |-> r.value, name |-> order[p]]>>
                     \o CollectFrom(order, p + 1)
            ELSE CollectFrom(order, p + 1)

collect_migrations(order) == CollectFrom(order, 1)

\* Where m goes in the sorted sequence: after every entry whose number is not
\* greater (sort_by is stable).
RECURSIVE InsertSorted(_, _)
InsertSorted(sorted, m) ==
    IF Len(sorted) = 0 THEN <<m>>
    ELSE IF sorted[Len(sorted)].number <= m.number THEN Append(sorted, m)
    ELSE Append(InsertSorted(SubSeq(sorted, 1, Len(sorted) - 1), m),
                sorted[Len(sorted)])

\* migrations.sort_by(|a, b| a.number.cmp(&b.number))
RECURSIVE SortFrom(_, _, _)
SortFrom(ms, p, acc) ==
    IF p > Len(ms) THEN acc ELSE SortFrom(ms, p + 1, InsertSorted(acc, ms[p]))

sort_by_number(ms) == SortFrom(ms, 1, <<>>)

\* The bumped name: every occurrence of the decimal form of the target's
\* number in its name replaced by the decimal form of the new number.
bumped_name_of(name, number, new_number) ==
    Replace(name, to_string(number), to_string(new_number))

\* iter().position(|x| x.name == name), 1-based; 0 for None.
position(ms, name) ==
    IF \E k \in 1..Len(ms) : ms[k].name = name
    THEN CHOOSE k \in 1..Len(ms) :
             /\ ms[k].name = name
             /\ \A j \in 1..(k - 1) : ms[j].name # name
    ELSE 0

\* The index (1-based) of the entry update_dependency takes as the one before
\* the target at idx; 0 where the program's index arithmetic leaves the
\* vector (idx - 1 or idx - 2 below its first element), which panics.
before_index(ms, idx) ==
    IF idx <= 1 THEN 0
    ELSE IF ms[idx].number > ms[idx - 1].number THEN idx - 1
    ELSE IF idx <= 2 THEN 0
    ELSE idx - 2

\* fs::rename(old, new) on the directory d (a function from the names present
\* to their contents); an existing destination is replaced.
renamed(d, old, new) ==
    [n \in (DOMAIN d \ {old}) \cup {new} |-> IF n = new THEN d[old] ELSE d[n]]

\* update_dependency once the target file is open and read: the last entry,
\* the target's position, the entry before it, the replacement, the write.
\* fault is the I/O step the environment fails ("create", "write" or another).
\* The result: kind "Ok", "Err" (with the error) or "panic"; the directory
\* afterwards; whether the fault was met.
rewrite_contents(d, ms, name, fault) ==
    IF Len(ms) = 0
    THEN [kind |-> "Err", error |-> "No last migration found.", dir |-> d,
          faulted |-> FALSE]
    ELSE IF position(ms, name) = 0
    THEN [kind |-> "Err", error |-> "Migration idx not found", dir |-> d,
          faulted |-> FALSE]
    ELSE IF before_index(ms, position(ms, name)) = 0
    THEN [kind |-> "panic", error |-> "index out of bounds", dir |-> d,
          faulted |-> FALSE]
    ELSE LET name_of_last_migration == ms[Len(ms)].name
             name_of_before_migration ==
                 ms[before_index(ms, position(ms, name))].name
             new_data == Replace(d[name], Stem(name_of_before_migration),
                                 Stem(name_of_last_migration))
         IN IF fault = "create"
            THEN [kind |-> "Err", error |-> "create", dir |-> d,
                  faulted |-> TRUE]
            ELSE IF fault = "write"
            THEN [kind |-> "Err", error |-> "Could not write to file",
                  dir |-> [d EXCEPT ![name] = <<>>], faulted |-> TRUE]
            ELSE [kind |-> "Ok", error |-> "",
                  dir |-> [d EXCEPT ![name] = new_data], faulted |-> FALSE]

\* update_dependency with the target looked up in the sequence before its file
\* is opened.
update_dependency_search_first(d, ms, name, fault) ==
    IF Len(ms) > 0 /\ position(ms, name) = 0
    THEN [kind |-> "Err", error |-> "Migration idx not found", dir |-> d,
          faulted |-> FALSE]
    ELSE IF name \notin DOMAIN d
    THEN [kind |-> "Err", error |-> "open", dir |-> d, faulted |-> FALSE]
    ELSE IF fault = "open"
    THEN [kind |-> "Err", error |-> "open", dir |-> d, faulted |-> TRUE]
    ELSE IF fault = "read"
    THEN [kind |-> "panic", error |-> "Unable to read the file", dir |-> d,
          faulted |-> TRUE]
    ELSE rewrite_contents(d, ms, name, fault)

\* update_dependency on the directory d: File::open fails with an error when
\* the file is not there (or on the fault "open"), a failing read panics, and
\* the rest is rewrite_contents.
update_dependency(d, ms, name, fault) ==
    IF name \notin DOMAIN d
    THEN [kind |-> "Err", error |-> "open", dir |-> d, faulted |-> FALSE]
    ELSE IF fault = "open"
    THEN [kind |-> "Err", error |-> "open", dir |-> d, faulted |-> TRUE]
    ELSE IF fault = "read"
    THEN [kind |-> "panic", error |-> "Unable to read the file", dir |-> d,
          faulted |-> TRUE]
    ELSE rewrite_contents(d, ms, name, fault)

\* update_name on the directory d: fs::rename fails when the source is not
\* there, or when the environment fails it.
update_name(d, name_before, name_after, fault) ==
    IF fault \/ name_before \notin DOMAIN d
    THEN [ok |-> FALSE, dir |-> d]
    ELSE [ok |-> TRUE, dir |-> renamed(d, name_before, name_after)]

\* ------------------------------------------------------- the directories

init_py == <<"_", "_", "i", "n", "i", "t", "_", "_", ".", "p", "y">>
m0001_init == <<"0", "0", "0", "1", "_", "i", "n", "i", "t", ".", "p", "y">>
m0002_add_field ==
    <<"0", "0", "0", "2", "_", "a", "d", "d", "_", "f", "i", "e", "l", "d",
      ".", "p", "y">>
m0003_remove_field ==
    <<"0", "0", "0", "3", "_", "r", "e", "m", "o", "v", "e", "_", "f", "i",
      "e", "l", "d", ".", "p", "y">>
m0001_a == <<"0", "0", "0", "1", "_", "a", ".", "p", "y">>
m0002_b == <<"0", "0", "0", "2", "_", "b", ".", "p", "y">>
m0002_c == <<"0", "0", "0", "2", "_", "c", ".", "p", "y">>
m0003_d == <<"0", "0", "0", "3", "_", "d", ".", "p", "y">>
m0002_add_field2 ==
    <<"0", "0", "0", "2", "_", "a", "d", "d", "_", "f", "i", "e", "l", "d",
      "2", ".", "p", "y">>
mMinus1_n == <<"-", "1", "_", "n", ".", "p", "y">>
m0000_init == <<"0", "0", "0", "0", "_", "i", "n", "i", "t", ".", "p", "y">>
m0099_z == <<"0", "0", "9", "9", "_", "z", ".", "p", "y">>
m0_a == <<"0", "_", "a", ".", "p", "y">>
m00_b == <<"0", "0", "_", "b", ".", "p", "y">>
m000_c == <<"0", "0", "0", "_", "c", ".", "p", "y">>
\* A migration name that is in none of the directories.
m0009_q == <<"0", "0", "0", "9", "_", "q", ".", "p", "y">>

\* The directories a run may start from, each as the list of its filenames.
Dirs ==
    << <<init_py, m0001_init, m0002_add_field, m0003_remove_field>>,
       <<m0001_a, m0002_b, m0002_c, m0003_d>>,
       <<m0001_a, m0002_add_field2, m0003_d>>,
       <<mMinus1_n, m0000_init, m0099_z>>,
       <<m0_a, m00_b, m000_c>>,
       <<init_py>>,
       <<>> >>

Range(f) == {f[k] : k \in DOMAIN f}

\* The text of every file at the start: a reference "[stem]" to each
\* migration of the directory, the whole list twice.
RECURSIVE RefsFrom(_, _)
RefsFrom(names, p) ==
    IF p > Len(names) THEN <<>>
    ELSE <<"[">> \o Stem(names[p]) \o <<"]">> \o RefsFrom(names, p + 1)

InitialContent(names) == RefsFrom(names, 1) \o RefsFrom(names, 1)

\* The names a batch may ask for: the files of the directory (the one that is
\* no migration included) and a migration that is not there.
ArgNames(names) == Range(names) \cup {m0009_q}

Batches(names) ==
    UNION {[1..n -> ArgNames(names)] : n \in 1..MaxBatch}

\* fs::read_dir lists the entries in an order of the filesystem's choosing.
Orders(S) ==
    {o \in [1..Cardinality(S) -> S] :
        \A a, b \in 1..Cardinality(S) : a # b => o[a] # o[b]}

\* -------------------------------------------------------------- the state

VARIABLES
    dir,          \* the directory: filename -> content
    args,         \* migrations_to_bump
    i,            \* the item of the batch bump() is at (1-based)
    pc,           \* "bump", "update_dependency", "update_name", "exit", "panic"
    migrations,   \* bump_migration's sorted scan
    bumped_name,  \* bump_migration's bumped_name
    new_number,   \* migrations.last().number + 1, as computed
    out,          \* the outcome printed for each item bump_migration returned from
    panic_msg,    \* the panic that ended the process, "" for none
    faults,       \* I/O faults injected so far
    pre           \* the directory as the current item found it

vars == <<dir, args, i, pc, migrations, bumped_name, new_number, out,
          panic_msg, faults, pre>>

FaultOr(S) == IF faults < MaxFaults THEN S ELSE {}

Init ==
    \E k \in 1..Len(Dirs) :
        /\ dir = [n \in Range(Dirs[k]) |-> InitialContent(Dirs[k])]
        /\ args \in Batches(Dirs[k])
        /\ i = 1
        /\ pc = "bump"
        /\ migrations = <<>>
        /\ bumped_name = <<>>
        /\ new_number = 0
        /\ out = <<>>
        /\ panic_msg = ""
        /\ faults = 0
        /\ pre = dir

Panic(msg) ==
    /\ pc' = "panic"
    /\ panic_msg' = msg
    /\ UNCHANGED <<dir, args, i, out>>

\* What collect_migrations and the sort can leave in `migrations`: one
\* sorted scan for each order the directory may be listed in.
Scans(d) == {sort_by_number(collect_migrations(o)) : o \in Orders(DOMAIN d)}

\* bump_migration up to its call of update_dependency: the scan, the sort, the
\* target's own number, the bumped name.  (The numbers of the directories
\* modelled stay below i32::MAX, so last + 1 does not overflow.)
BumpMigration ==
    /\ pc = "bump"
    /\ i <= Len(args)
    /\ pre' = dir
    /\ \E read_dir_fails \in {FALSE} \cup FaultOr({TRUE}) :
        IF read_dir_fails
        THEN /\ Panic("Could not find directory.")
             /\ faults' = faults + 1
             /\ UNCHANGED <<migrations, bumped_name, new_number>>
        ELSE \E ms \in Scans(dir) :
            LET number == ParseI32(SplitFirst(args[i]))
            IN /\ faults' = faults
               /\ migrations' = ms
               /\ IF ~number.ok
                  THEN /\ Panic("unwrap on a ParseIntError")
                       /\ UNCHANGED <<bumped_name, new_number>>
                  ELSE IF Len(ms) = 0
                  THEN /\ Panic("unwrap on None")
                       /\ UNCHANGED <<bumped_name, new_number>>
                  ELSE /\ new_number' = ms[Len(ms)].number + 1
                       /\ bumped_name' =
                              bumped_name_of(args[i], number.value,
                                             new_number')
                       /\ pc' = "update_dependency"
                       /\ UNCHANGED <<dir, args, i, out, panic_msg>>

\* What bump_migration prints for the item it returns from: the progress line
\* (old name, bumped name, whose number is new_number) and the outcome.
Report(status, error) ==
    [name |-> args[i], bumped |-> bumped_name, new_number |-> new_number,
     status |-> status, error |-> error]

\* bump_migration from its call of update_dependency on, with the return after
\* the failure report left out: the rename follows whatever update_dependency
\* returned.
UpdateDependency_RenamesAfterError ==
    /\ pc = "update_dependency"
    /\ \E fault \in {"none"} \cup FaultOr({"open", "read", "create", "write"}) :
        LET r == update_dependency(dir, migrations, args[i], fault)
        IN /\ fault # "none" => r.faulted
           /\ faults' = IF r.faulted THEN faults + 1 ELSE faults
           /\ IF r.kind = "panic"
              THEN Panic(r.error)
              ELSE /\ dir' = r.dir
                   /\ pc' = "update_name"
                   /\ UNCHANGED <<args, i, out, panic_msg>>
    /\ UNCHANGED <<migrations, bumped_name, new_number, pre>>

\* The call of update_dependency and, when it fails, the failure report and
\* the return from bump_migration.
UpdateDependency ==
    /\ pc = "update_dependency"
    /\ \E fault \in {"none"} \cup FaultOr({"open", "read", "create", "write"}) :
        LET r == update_dependency(dir, migrations, args[i], fault)
        IN /\ fault # "none" => r.faulted
           /\ faults' = IF r.faulted THEN faults + 1 ELSE faults
           /\ IF r.kind = "panic"
              THEN Panic(r.error)
              ELSE IF r.kind = "Err"
              THEN /\ dir' = r.dir
                   /\ out' = Append(out, Report("dependency failed",
                                                 r.error))
                   /\ i' = i + 1
                   /\ pc' = "bump"
                   /\ UNCHANGED <<args, panic_msg>>
              ELSE /\ dir' = r.dir
                   /\ pc' = "update_name"
                   /\ UNCHANGED <<args, i, out, panic_msg>>
    /\ UNCHANGED <<migrations, bumped_name, new_number, pre>>

\* The call of update_name, the report and the return from bump_migration.
UpdateName ==
    /\ pc = "update_name"
    /\ \E rename_fails \in {FALSE} \cup FaultOr({TRUE}) :
        LET r == update_name(dir, args[i], bumped_name, rename_fails)
        IN /\ faults' = IF rename_fails THEN faults + 1 ELSE faults
           /\ dir' = r.dir
           /\ out' = Append(out, IF r.ok THEN Report("ok", "")
                                 ELSE Report("rename failed", "rename"))
    /\ i' = i + 1
    /\ pc' = "bump"
    /\ UNCHANGED <<args, migrations, bumped_name, new_number, panic_msg, pre>>

\* bump's loop is over and main returns.
Exit ==
    /\ pc = "bump"
    /\ i > Len(args)
    /\ pc' = "exit"
    /\ UNCHANGED <<dir, args, i, migrations, bumped_name, new_number, out,
                   panic_msg, faults, pre>>

Next == BumpMigration \/ UpdateDependency \/ UpdateName \/ Exit

Spec == Init /\ [][Next]_vars

\* ------------------------------------------------- vocabulary of the claims

\* str::replacen(from, to, 1): the first occurrence only.
ReplaceFirst(s, from, to) ==
    LET q == NextMatch(s, from, 1)
    IN IF q = 0 THEN s
       ELSE SubSeq(s, 1, q - 1) \o to \o SubSeq(s, q + Len(from), Len(s))

\* A scan takes the file n for a migration, with the id IdOf(n).
IsMigrationName(n) == ParseI32(SplitFirst(n)).ok
IdOf(n) == ParseI32(SplitFirst(n)).value

Ids(d) == {IdOf(n) : n \in {m \in DOMAIN d : IsMigrationName(m)}}
MaxId(d) == CHOOSE m \in Ids(d) : \A k \in Ids(d) : k <= m

\* bump_migration has returned from an item and the next one has not begun:
\* pre, migrations, bumped_name and new_number are still that item's.
Returned == pc \in {"bump", "exit"} /\ Len(out) > 0
LastOut == out[Len(out)]
Succeeded == Returned /\ LastOut.status = "ok"

\* An item has begun: it is under way, it panicked or it has returned.
Begun == pc \in {"update_dependency", "update_name", "panic"} \/ Returned
\* The name of that item.
CurName == IF Returned THEN LastOut.name ELSE args[i]

\* The sorted position of that item's target (1-based, 0 when absent).
CurIdx == position(migrations, CurName)

\* -------------------------------------------------------------------- C1
\* C1: a bump that succeeds on a target at sorted index idx >= 1 whose id is
\* greater than that of the entry before it renames the target to its filename
\* with the id replaced by max(scanned ids) + 1 (the replacement of the spec's
\* step 5: the first occurrence of the id's decimal string), and the renamed
\* file holds the old content with every occurrence of the stem of
\* sequence[idx-1] replaced by the stem of the last entry.
C1_BumpRenamesAndRewrites ==
    (Succeeded /\ CurIdx >= 2) =>
        (migrations[CurIdx].number > migrations[CurIdx - 1].number =>
            LET expected == ReplaceFirst(CurName, to_string(IdOf(CurName)),
                                         to_string(MaxId(pre) + 1))
            IN /\ expected \in DOMAIN dir
               /\ CurName \notin DOMAIN dir
               /\ dir[expected] =
                      Replace(pre[CurName],
                              Stem(migrations[CurIdx - 1].name),
                              Stem(migrations[Len(migrations)].name)))

\* -------------------------------------------------------------------- C2
\* C2: after a bump reported as successful, every fresh scan of the directory
\* finds the renamed file, and the id parsed from its name is strictly greater
\* than the id of every other scanned entry.
C2_TargetAtTheEnd ==
    Succeeded =>
        \A ms \in Scans(dir) :
            LET p == position(ms, LastOut.bumped)
            IN /\ p > 0
               /\ \A k \in 1..Len(ms) : k # p => ms[k].number < ms[p].number

\* -------------------------------------------------------------------- C3
\* C3: after a successful bump the stem written into the target file is that
\* of the entry that immediately precedes the renamed target in a re-scanned,
\* sorted sequence, and it is never the target's own old stem.
C3_ReferenceIsNewPredecessor ==
    Succeeded =>
        LET written == Stem(migrations[Len(migrations)].name)
        IN /\ written # Stem(CurName)
           /\ \E ms \in Scans(dir) :
                  LET p == position(ms, LastOut.bumped)
                  IN p >= 2 /\ Stem(ms[p - 1].name) = written

\* -------------------------------------------------------------------- C4
\* C4: whatever way an item fails, the items after it are still attempted:
\* the process never ends before bump() has reached the last requested name.
C4_BatchNeverAborted ==
    /\ pc = "panic" => i = Len(args)
    /\ pc = "exit" => Len(out) = Len(args)

\* -------------------------------------------------------------------- C5
\* C5: when the target is the first or the second entry of the sorted
\* sequence, the predecessor computation fails with a PredecessorIndexError
\* outcome for the item: no out-of-bounds index crashes the run, no
\* predecessor is selected, and the file is neither rewritten nor renamed.
C5_PredecessorIndexError ==
    /\ ~(pc = "panic" /\ panic_msg = "index out of bounds")
    /\ (Returned /\ CurIdx \in {1, 2} /\ LastOut.error # "open") =>
           (LastOut.error = "PredecessorIndexError" /\ dir = pre)

\* -------------------------------------------------------------------- C6
\* C6: on a directory without any migration a bump (of a name with a numeric
\* prefix, the directory being readable) reaches the rewrite, which fails with
\* "No last migration found."; nothing panics before, no rename is made and the
\* item is reported as failed.
C6_NoLastMigrationError ==
    (/\ Begun
     /\ Ids(pre) = {}
     /\ IsMigrationName(CurName)
     /\ panic_msg # "Could not find directory.") =>
        /\ pc # "panic"
        /\ pc # "update_name"
        /\ Returned =>
               /\ LastOut.status = "dependency failed"
               /\ LastOut.error = "No last migration found."

\* -------------------------------------------------------------------- C7
\* The case of C7: the item's name has a numeric prefix and is not among the
\* entries of the directory, which holds at least one migration and could be
\* read.
C7_Case ==
    /\ Begun
    /\ IsMigrationName(CurName)
    /\ CurName \notin DOMAIN pre
    /\ Ids(pre) # {}
    /\ panic_msg # "Could not find directory."

Rewritten == update_dependency(pre, migrations, CurName, "none")

C8_State ==
    /\ pc = "update_name" =>
           /\ Rewritten.kind = "Ok"
           /\ dir = Rewritten.dir
           /\ Len(out) = i - 1
    /\ (Returned /\ LastOut.status = "dependency failed") =>
           /\ DOMAIN dir = DOMAIN pre
           /\ LastOut.bumped \in DOMAIN dir => LastOut.bumped \in DOMAIN pre
    /\ (Returned /\ LastOut.status = "rename failed") =>
           /\ Rewritten.kind = "Ok"
           /\ dir = Rewritten.dir
    /\ Succeeded =>
           /\ Rewritten.kind = "Ok"
           /\ dir = renamed(Rewritten.dir, CurName, LastOut.bumped)

C8_Step ==
    /\ pc' = "update_name" => pc = "update_dependency"
    /\ (pc = "update_dependency" /\ pc' = "bump") =>
           /\ Len(out') = Len(out) + 1
           /\ out'[Len(out')].status = "dependency failed"
           /\ DOMAIN dir' = DOMAIN dir
    /\ DOMAIN dir' # DOMAIN dir => pc = "update_name"
    /\ (Len(out') > Len(out) /\ out'[Len(out')].status = "ok") =>
           pc = "update_name"

\* C8: within an item the rewrite precedes the rename; the rename is attempted
\* only after update_dependency returned Ok; when it returns an error the
\* target keeps its filename and the item is reported as failed; success is
\* reported only when the rewrite and the rename both succeeded.
C8_RewriteThenRename == []C8_State /\ [][C8_Step]_vars

\* An item whose rewrite failed after the file was opened has returned: the
\* file has kept its name and the item is reported as failed.
C8_Witness ==
    /\ Returned
    /\ LastOut.status = "dependency failed"
    /\ LastOut.error = "Could not write to file"
    /\ LastOut.name \in DOMAIN dir

\* -------------------------------------------------------------------- C9
\* C9: the new id of an item is 1 + the greatest id in the directory as the
\* item finds it, so the items of a batch of successful bumps are given
\* consecutive new ids, no two the same.
C9_ConsecutiveNewIds ==
    /\ (pc \in {"update_dependency", "update_name"} \/ Returned) =>
           new_number = MaxId(pre) + 1
    /\ \A j \in 1..(Len(out) - 1) :
           (\A k \in 1..(j + 1) : out[k].status = "ok") =>
               out[j + 1].new_number = out[j].new_number + 1

\* ------------------------------------------------------------------- C10
\* C10: the bumped filename is the target's filename with only the first
\* occurrence of the decimal string of its id replaced by that of the new id;
\* every later occurrence is left as it is.
C10_FirstOccurrenceOnly ==
    pc = "update_dependency" =>
        bumped_name = ReplaceFirst(args[i], to_string(IdOf(args[i])),
                                   to_string(new_number))

====
